---- MODULE Spec2Model ----
(***************************************************************************)
(* Athena II integration: the polling coordinator                          *)
(* (custom_components/athena2/coordinator.py) and its normalizer.          *)
(*                                                                         *)
(* Text is a sequence of one-character strings; the degree sign U+00B0 is  *)
(* written "deg".  A JSON / Python value is a record [t, s, m, e]:         *)
(*   t = "str"  : the text s                                               *)
(*   t = "num"  : the number m / 10^e (int or float; Python compares them  *)
(*                by value), kept canonical: e = 0 or m not divisible by 10*)
(*   t = "bool" : m = 1 for True, 0 for False                              *)
(*   t = "null" : None                                                     *)
(* A mapping (dict) is a function from field names to values.              *)
(***************************************************************************)
EXTENDS Integers, Sequences, FiniteSets, TLC

VARIABLES
    data,                 \* coordinator.data: the published Snapshot (NoData = None)
    last_update_success,  \* coordinator.last_update_success
    last_exception,       \* class/cause of the error the last refresh raised
    pc,                   \* position of the refresh task: idle / status / analytic
    body,                 \* _async_update_data: local `data` (decoded status body)
    analytic_data,        \* _fetch_analytic_data: local `analytic_data`
    metric_idx,           \* _fetch_analytic_data: next metric id of the for loop
    elapsed,              \* ms since the 10 s timeout block was entered
    status_resp,          \* history: what the status GET of this cycle met
    responses,            \* history: what each analytic GET of this cycle met
    batch,                \* history: how _fetch_analytic_data ended in this cycle
    prev_data,            \* history: coordinator.data when this cycle started
    seen,                 \* what a consumer last read from coordinator.data
    device,               \* the printer: answers / silent / silent_metrics
    raw,                  \* normalizer study: the input mapping
    once,                 \* normalizer study: _normalize_data(raw)
    twice,                \* normalizer study: _normalize_data(once)
    npc                   \* normalizer study: how many times it was applied

VARIABLES
    header,               \* the Content-Length line the stream opens with, or <<>>
    body_chunks,          \* the chunks iter_chunked delivers after the header
    tail,                 \* what follows them: eof / error / endless
    chunks,               \* the chunks not read yet
    buffer,               \* _extract_mjpeg_frame: local `buffer`
    content_length,       \* _extract_mjpeg_frame: local `content_length`
    in_jpeg,              \* _extract_mjpeg_frame: local `in_jpeg`
    jpeg_data,            \* the value _extract_mjpeg_frame returns
    epc,                  \* position of the extractor: idle / reading / done
    nread                 \* bytes taken from the response so far

frameVars == <<header, body_chunks, tail, chunks, buffer, content_length,
               in_jpeg, jpeg_data, epc, nread>>

VARIABLES
    camera_fps,           \* Athena2Camera._camera_fps
    last_image,           \* Athena2Camera._last_image (NoFrame = None)
    last_frame_time,      \* Athena2Camera._last_frame_time, in ms
    wall_clock,           \* datetime.now().timestamp(), in ms
    ticks,                \* how often the clock has advanced
    requests,             \* GETs of the stream url issued so far
    calls                 \* the calls of async_camera_image: position, locals, history

cameraVars == <<camera_fps, last_image, last_frame_time, wall_clock, ticks,
                requests, calls>>

VARIABLES
    entry_state,          \* where each config entry is in its setup / unload
    first_ok,             \* history: the entry's first refresh succeeded
    registry,             \* hass.data[DOMAIN]: the entries that hold a coordinator
    services,             \* the services of the domain registered in hass.services
    last_call             \* the last service call: its data and how its handler ended

serviceVars == <<entry_state, first_ok, registry, services, last_call>>

vars == <<data, last_update_success, last_exception, pc, body, analytic_data,
          metric_idx, elapsed, status_resp, responses, batch,
          prev_data, seen, device, raw, once, twice, npc,
          header, body_chunks, tail, chunks, buffer, content_length,
          in_jpeg, jpeg_data, epc, nread,
          camera_fps, last_image, last_frame_time, wall_clock, ticks, requests,
          calls, entry_state, first_ok, registry, services, last_call>>

cycleVars == <<data, last_update_success, last_exception, pc, body,
               analytic_data, metric_idx, elapsed, status_resp,
               responses, batch, prev_data, seen, device>>

normVars == <<raw, once, twice, npc>>

-----------------------------------------------------------------------------
(* Bounds of the model *)

\* how many metrics of the table may misbehave (the others always answer)
NumFaulty == 2
\* time a request that is answered takes, in ms
AnswerMs == 50
\* longest text drawn as a normalizer input
MaxStrLen == 3

\* length of the freely chosen stream bodies, in byte tokens
MaxBody == 4

\* chunk boundaries placed freely inside a stream body
MaxCuts == 1

\* length of each noise / image run of a framed stream body
MaxRun == 1

\* calls of async_camera_image in one behaviour
NumCalls == 2

\* the small step of the wall clock, in ms
ClockStep == 500

\* how often the wall clock advances in one behaviour
MaxTicks == 2

\* the wall clock when the camera is built, in ms
StartClock == 20000

\* config entries (devices) of the integration
NumEntries == 2

-----------------------------------------------------------------------------
(* Values *)

Str(s) == [t |-> "str", s |-> s, m |-> 0, e |-> 0]

RECURSIVE Canon(_, _)
\* the canonical record of the number m / 10^e
Canon(m, e) ==
    IF m = 0 THEN [t |-> "num", s |-> <<>>, m |-> 0, e |-> 0]
    ELSE IF e > 0 /\ m % 10 = 0 THEN Canon(m \div 10, e - 1)
    ELSE [t |-> "num", s |-> <<>>, m |-> m, e |-> e]

Num(m, e) == Canon(m, e)

Bool(b) == [t |-> "bool", s |-> <<>>, m |-> IF b THEN 1 ELSE 0, e |-> 0]

Null == [t |-> "null", s |-> <<>>, m |-> 0, e |-> 0]

\* str.isspace() characters of the model's alphabet
Whitespace == {" ", "\n"}

Digits == {"0", "1", "2", "3", "4", "5", "6", "7", "8", "9"}

DigitVal(c) ==
    CASE c = "0" -> 0 [] c = "1" -> 1 [] c = "2" -> 2 [] c = "3" -> 3
      [] c = "4" -> 4 [] c = "5" -> 5 [] c = "6" -> 6 [] c = "7" -> 7
      [] c = "8" -> 8 [] c = "9" -> 9

RECURSIVE RStrip(_, _)
\* str.rstrip(chars): drops every trailing character that is in chars
RStrip(s, chars) ==
    IF Len(s) > 0 /\ s[Len(s)] \in chars
    THEN RStrip(SubSeq(s, 1, Len(s) - 1), chars)
    ELSE s

RECURSIVE LStrip(_, _)
LStrip(s, chars) ==
    IF Len(s) > 0 /\ s[1] \in chars THEN LStrip(Tail(s), chars) ELSE s

\* str.strip(): whitespace off both ends
Strip(s) == LStrip(RStrip(s, Whitespace), Whitespace)

RECURSIVE DigitsVal(_)
DigitsVal(s) ==
    IF Len(s) = 0 THEN 0
    ELSE 10 * DigitsVal(SubSeq(s, 1, Len(s) - 1)) + DigitVal(s[Len(s)])

\* the text without its sign
Unsigned(s) == IF Len(s) > 0 /\ s[1] \in {"-", "+"} THEN Tail(s) ELSE s

DotPositions(s) == {i \in 1..Len(s) : s[i] = "."}

\* float(text) accepts: surrounding whitespace, an optional sign, digits with at
\* most one decimal point and at least one digit.  (Exponents, underscores, "inf"
\* and "nan" need characters that no text of the model contains.)
FloatOk(text) ==
    \E u \in {Unsigned(Strip(text))} :
        /\ \A i \in 1..Len(u) : u[i] \in Digits \cup {"."}
        /\ Cardinality(DotPositions(u)) <= 1
        /\ \E i \in 1..Len(u) : u[i] \in Digits

\* float(text) where FloatOk(text)
FloatVal(text) ==
    LET Parsed ==
            [t0 \in {Strip(text)} |->
                LET neg  == Len(t0) > 0 /\ t0[1] = "-"
                    u    == Unsigned(t0)
                    dots == DotPositions(u)
                    d    == IF dots = {} THEN Len(u) + 1 ELSE CHOOSE i \in dots : TRUE
                    ip   == SubSeq(u, 1, d - 1)
                    fp   == SubSeq(u, d + 1, Len(u))
                    mant == DigitsVal(ip \o fp)
                IN  Num(IF neg THEN 0 - mant ELSE mant, Len(fp))]
    IN  Parsed[Strip(text)]

-----------------------------------------------------------------------------
(* DataNormalizer: Athena2Coordinator._normalize_data *)

PercentKeys == {"disk", "mem", "proc"}

\* a failed percentage parse that writes the stripped text back
NormalizePercentWriteBack(v) ==
    IF v.t = "str"
    THEN IF FloatOk(RStrip(v.s, {"%"}))
         THEN FloatVal(RStrip(v.s, {"%"}))
         ELSE Str(RStrip(v.s, {"%"}))
    ELSE v

\* a failed percentage parse that stores None
NormalizePercentNullOnError(v) ==
    IF v.t = "str"
    THEN IF FloatOk(RStrip(v.s, {"%"}))
         THEN FloatVal(RStrip(v.s, {"%"}))
         ELSE Null
    ELSE v

\* disk / mem / proc: a str goes through float(value.rstrip("%")); a ValueError
\* leaves the value as it is
NormalizePercent(v) ==
    IF v.t = "str"
    THEN IF FloatOk(RStrip(v.s, {"%"}))
         THEN FloatVal(RStrip(v.s, {"%"}))
         ELSE v
    ELSE v

\* temp: a str goes through float(value.rstrip("°C")); rstrip takes a set of
\* characters, here the degree sign and "C"
NormalizeTemp(v) ==
    IF v.t = "str"
    THEN IF FloatOk(RStrip(v.s, {"deg", "C"}))
         THEN FloatVal(RStrip(v.s, {"deg", "C"}))
         ELSE v
    ELSE v

\* isinstance(value, (int, float)): bool is a subclass of int
IsIntOrFloat(v) == v.t \in {"num", "bool"}

\* value / 1000.0
DivThousand(v) == Num(v.m, v.e + 3)

\* CurrentHeight: micrometers to millimeters
NormalizeHeight(v) == IF IsIntOrFloat(v) THEN DivThousand(v) ELSE v

\* a normalizer that parses every textual field with a % suffix
NormalizeFieldEveryText(k, v) ==
    IF k = "temp" THEN NormalizeTemp(v)
    ELSE IF k = "CurrentHeight" THEN NormalizeHeight(v)
    ELSE NormalizePercent(v)

NormalizeField(k, v) ==
    IF k \in PercentKeys THEN NormalizePercent(v)
    ELSE IF k = "temp" THEN NormalizeTemp(v)
    ELSE IF k = "CurrentHeight" THEN NormalizeHeight(v)
    ELSE v

\* _normalize_data(data): a copy with the five fields converted
NormalizeData(d) == [k \in DOMAIN d |-> NormalizeField(k, d[k])]

-----------------------------------------------------------------------------
(* Inputs of the normalizer study *)

\* None / the empty mapping
NoData == [k \in {} |-> Null]

Alphabet == {"4", "9", ".", "%", "deg", "C", " ", "-"}

Texts == UNION {[1..n -> Alphabet] : n \in 0..MaxStrLen}

TextIdle == <<"I", "d", "l", "e">>
TextPrinting == <<"P", "r", "i", "n", "t", "i", "n", "g">>
Text49Percent == <<"4", "9", "%">>
Text4135C == <<"4", "1", ".", "3", "5", "deg", "C">>

Text4CdegC == <<"4", "C", "deg", "C">>

Values ==
    {Str(s) : s \in Texts \cup {Text4135C, TextIdle, Text4CdegC}}
        \cup {Num(0, 0), Num(49, 0), Num(42550, 0), Num(4255, 2), Num(0 - 5, 1)}
        \cup {Bool(TRUE), Bool(FALSE), Null}

NormKeys == PercentKeys \cup {"temp", "CurrentHeight", "Path"}

RawInputs ==
    {("Status" :> Str(TextIdle))}
        \cup {("Status" :> Str(TextIdle)) @@ (k :> v) : k \in NormKeys, v \in Values}
        \cup {[k \in PercentKeys \cup {"temp", "Status", "Path"} |-> Str(Text49Percent)],
              [k \in {"CurrentHeight", "LayerID", "PlateHeight"} |-> Num(42550, 0)]}

-----------------------------------------------------------------------------
(* Program constants and the metric table *)

\* async_timeout.timeout(10) around the whole of _async_update_data, seconds
StatusTimeout == 10
\* async_timeout.timeout(5) around each analytic GET, seconds
AnalyticTimeout == 5

StatusMs == StatusTimeout * 1000
AnalyticMs == AnalyticTimeout * 1000

\* const.ANALYTIC_METRICS: metric id i is entry i + 1
ANALYTIC_METRICS ==
    << "layer_height", "solid_area", "area_count", "largest_area", "speed",
       "cure", "pressure", "temperature_inside", "temperature_outside",
       "layer_time_analytic", "lift_height", "temperature_mcu_analytic",
       "temperature_inside_target", "temperature_outside_target",
       "temperature_mcu_target", "mcu_fan_rpm_analytic", "uv_fan_rpm_analytic",
       "dynamic_wait", "temperature_vat", "temperature_vat_target",
       "ptc_fan_rpm", "aegis_fan_rpm", "temperature_chamber",
       "temperature_chamber_target", "temperature_ptc",
       "temperature_ptc_target", "voc_inlet", "voc_outlet" >>

NumMetrics == Len(ANALYTIC_METRICS)

MetricIds == 0..(NumMetrics - 1)

MetricKey(id) == ANALYTIC_METRICS[id + 1]

-----------------------------------------------------------------------------
(* The device as the coordinator meets it *)

\* A request ends in one of:
\*   no_answer     nothing arrives before any deadline
\*   client_error  session.get raises aiohttp.ClientError
\*   response      a response with a status and a body; the body is
\*                   "text"           readable text (field text)
\*                   "undecodable"    decoding it raises UnicodeDecodeError
\*                   "not_json"       (status endpoint) text that is no JSON document
\*                   "json"           (status endpoint) a JSON object (field obj)
NoAnswer ==
    [kind |-> "no_answer", status |-> 0, body |-> "none", text |-> <<>>, obj |-> NoData]

ClientError ==
    [kind |-> "client_error", status |-> 0, body |-> "none", text |-> <<>>, obj |-> NoData]

TextResponse(st, bk, txt) ==
    [kind |-> "response", status |-> st, body |-> bk, text |-> txt, obj |-> NoData]

JsonResponse(st, o) ==
    [kind |-> "response", status |-> st, body |-> "json", text |-> <<>>, obj |-> o]

NotRequested ==
    [kind |-> "none", status |-> 0, body |-> "none", text |-> <<>>, obj |-> NoData]

BodyIdle ==
    ("Status" :> Str(TextIdle)) @@ ("disk" :> Str(Text49Percent))
        @@ ("temp" :> Str(Text4135C)) @@ ("CurrentHeight" :> Num(42550, 0))

BodyPrinting ==
    ("Status" :> Str(TextPrinting)) @@ ("mem" :> Str(<<"9", "%">>))
        @@ ("CurrentHeight" :> Num(100, 0)) @@ ("Paused" :> Bool(FALSE))

BodyNoStatus ==
    ("disk" :> Str(Text49Percent)) @@ ("Hostname" :> Str(<<"x">>))

StatusBodies == {BodyIdle, BodyPrinting, BodyNoStatus}

StatusResponses ==
    {NoAnswer, ClientError}
        \cup {JsonResponse(st, o) : st \in {200, 500}, o \in StatusBodies}
        \cup {TextResponse(st, "not_json", <<"x">>) : st \in {200, 500}}

\* the metrics that may misbehave, in the order the bound admits them
FaultOrder == <<6, 27, 26, 0>>

FaultyIds ==
    {FaultOrder[i] : i \in {j \in 1..Len(FaultOrder) : j <= NumFaulty}}

\* the decimal text of a metric id: what a healthy device answers for it
IdText(id) ==
    IF id < 10 THEN <<ToString(id)>>
    ELSE <<ToString(id \div 10), ToString(id % 10)>>

MetricResponses(id) ==
    IF id \in FaultyIds
    THEN { NoAnswer, ClientError,
           TextResponse(200, "text", <<" ", "4", ".", "9", "\n">>),
           TextResponse(200, "text", <<"x">>),
           TextResponse(500, "text", <<"4">>),
           TextResponse(200, "undecodable", <<>>) }
    ELSE { TextResponse(200, "text", IdText(id)) }

\* the metric answered 200 with numeric text
Answered200Numeric(r) ==
    r.kind = "response" /\ r.status = 200 /\ r.body = "text" /\ FloatOk(Strip(r.text))

-----------------------------------------------------------------------------
(* PollingCoordinator: Athena2Coordinator._async_update_data *)

NoException == [class |-> "None", cause |-> "None"]

UpdateFailed(cause) == [class |-> "UpdateFailed", cause |-> cause]

\* a status check that trusts any decoded body
StatusOutcomeNoStatusCheck(r) ==
    IF r.kind = "no_answer" THEN "Timeout"
    ELSE IF r.kind = "client_error" THEN "ClientError"
    ELSE IF r.status >= 400 THEN "ClientError"
    ELSE IF r.body # "json" THEN "InvalidJSON"
    ELSE "ok"

\* a status request that skips raise_for_status()
StatusOutcomeNoRaiseForStatus(r) ==
    IF r.kind = "no_answer" THEN "Timeout"
    ELSE IF r.kind = "client_error" THEN "ClientError"
    ELSE IF r.body # "json" THEN "InvalidJSON"
    ELSE IF "Status" \notin DOMAIN r.obj THEN "MissingStatus"
    ELSE "ok"

\* a status request that goes on to the metrics whatever the device sent back
StatusOutcomeAnyAnswer(r) ==
    IF r.kind = "no_answer" THEN "Timeout"
    ELSE IF r.kind = "client_error" THEN "ClientError"
    ELSE "ok"

\* what the status request of lines 47-54 comes to: "ok", or the cause of the
\* UpdateFailed that lines 54 and 65-70 raise
StatusOutcome(r) ==
    IF r.kind = "no_answer" THEN "Timeout"
    ELSE IF r.kind = "client_error" THEN "ClientError"
    ELSE IF r.status >= 400 THEN "ClientError"
    ELSE IF r.body # "json" THEN "InvalidJSON"
    ELSE IF "Status" \notin DOMAIN r.obj THEN "MissingStatus"
    ELSE "ok"

\* a loop body that stores the text of any response, whatever its status
MetricStepAnyStatus(acc, key, r) ==
    IF r.kind = "response" /\ r.body = "text" /\ FloatOk(Strip(r.text))
    THEN (key :> FloatVal(Strip(r.text))) @@ acc
    ELSE acc

\* one pass of the for loop of _fetch_analytic_data that is not cut short:
\* analytic_data[metric_key] = float(value.strip()) for a 200 with numeric text
MetricStep(acc, key, r) ==
    IF Answered200Numeric(r)
    THEN (key :> FloatVal(Strip(r.text))) @@ acc
    ELSE acc

\* an error that is neither TimeoutError nor ClientError nor the ValueError of
\* float() leaves the for loop for the outer `except Exception`
LeavesLoop(r) == r.kind = "response" /\ r.status = 200 /\ r.body = "undecodable"

\* when the request of a metric started at time now is over, if the 10 s
\* deadline lets it be
RequestEnd(now, r) ==
    IF r.kind = "no_answer" THEN now + AnalyticMs ELSE now + AnswerMs

\* the 10 s deadline, entered before the status GET, fires first
DeadlineFires(now, r) == RequestEnd(now, r) >= StatusMs

\* a merge that starts from the published mapping
UpdateOntoPublished(b, a) == a @@ b @@ data

\* data.update(analytic_data)
Update(b, a) == a @@ b

\* coordinator.data after _async_update_data raised: nothing is returned, so the
\* caller has nothing to replace it with
DataAfterFailure(old) == old

\* a coordinator that merges what it has fetched into the published mapping
DataWhileRefreshingInPlace(old, b, a) == a @@ b @@ old

\* coordinator.data while _async_update_data is suspended: body and
\* analytic_data are locals, the published mapping is not touched
DataWhileRefreshing(old, b, a) == old

Unread == [read |-> FALSE, value |-> NoData]

\* the printer answers what it likes, or it is silent: it never answers any
\* request, or it answers the status request and then never answers a metric
\* request it is free not to answer
Devices == {"answers", "silent", "silent_metrics"}

\* what the device lets a request meet, out of the responses rs
Allowed(dev, rs, status) ==
    IF dev = "silent" /\ NoAnswer \in rs THEN {NoAnswer}
    ELSE IF dev = "silent_metrics" /\ status THEN rs \ {NoAnswer}
    ELSE IF dev = "silent_metrics" /\ NoAnswer \in rs THEN {NoAnswer}
    ELSE rs

\* an await that only an answer ends
ResumesOnAnswerOnly(r, limit) == r.kind # "no_answer"

\* the await of a GET inside async_timeout.timeout(limit) is resumed by the
\* answer or, when none comes, by the timer
Resumes(r, limit) == r.kind # "no_answer" \/ limit > 0

\* the coordinator after __init__
CycleStart ==
    /\ data = NoData
    /\ last_update_success = TRUE
    /\ last_exception = NoException
    /\ pc = "idle"
    /\ body = NoData
    /\ analytic_data = NoData
    /\ metric_idx = 0
    /\ elapsed = 0
    /\ status_resp = NotRequested
    /\ responses = <<>>
    /\ batch = "none"
    /\ prev_data = NoData
    /\ seen = Unread

CycleInit == CycleStart /\ device = "answers"

\* the scheduler (or a forced refresh) calls _async_update_data; calls are
\* serialized
StartRefresh ==
    /\ pc = "idle"
    /\ pc' = "status"
    /\ elapsed' = 0
    /\ prev_data' = data
    /\ status_resp' = NotRequested
    /\ responses' = <<>>
    /\ batch' = "none"
    /\ body' = NoData
    /\ analytic_data' = NoData
    /\ metric_idx' = 0
    /\ seen' = Unread
    /\ UNCHANGED <<data, last_update_success, last_exception, device>>

\* _async_update_data raises UpdateFailed
Fail(cause) ==
    /\ pc' = "idle"
    /\ last_update_success' = FALSE
    /\ last_exception' = UpdateFailed(cause)
    /\ data' = DataAfterFailure(data)

\* _async_update_data returns normalized_data and the coordinator publishes it
Publish(b, a) ==
    /\ pc' = "idle"
    /\ last_update_success' = TRUE
    /\ last_exception' = NoException
    /\ data' = NormalizeData(Update(b, a))

\* lines 47-54: the status GET, raise_for_status, json() and the Status check
FetchStatus ==
    /\ pc = "status"
    /\ \E r \in Allowed(device, StatusResponses, TRUE) :
        /\ Resumes(r, StatusMs)
        /\ status_resp' = r
        /\ IF StatusOutcome(r) = "ok"
           THEN /\ pc' = "analytic"
                /\ body' = r.obj
                /\ elapsed' = elapsed + AnswerMs
                /\ data' = DataWhileRefreshing(data, r.obj, NoData)
                /\ UNCHANGED <<last_update_success, last_exception>>
           ELSE /\ Fail(StatusOutcome(r))
                /\ elapsed' = IF r.kind = "no_answer" THEN StatusMs
                              ELSE elapsed + AnswerMs
                /\ UNCHANGED body
    /\ UNCHANGED <<analytic_data, metric_idx, responses, batch,
                   prev_data, seen, device>>

\* lines 78-91 for the metric metric_idx, and, when the loop ends with it,
\* lines 95 and 58-63
FetchMetric ==
    /\ pc = "analytic"
    /\ \E r \in Allowed(device, MetricResponses(metric_idx), FALSE) :
        \E acc \in {IF LeavesLoop(r) THEN analytic_data
                    ELSE MetricStep(analytic_data, MetricKey(metric_idx), r)} :
            /\ Resumes(r, AnalyticMs)
            /\ responses' = Append(responses, r)
            /\ IF DeadlineFires(elapsed, r)
               THEN /\ Fail("Timeout")
                    /\ elapsed' = StatusMs
                    /\ batch' = "cancelled"
                    /\ UNCHANGED <<analytic_data, metric_idx>>
               ELSE /\ elapsed' = RequestEnd(elapsed, r)
                    /\ analytic_data' = acc
                    /\ IF LeavesLoop(r) \/ metric_idx = NumMetrics - 1
                       THEN /\ Publish(body, acc)
                            /\ batch' = IF LeavesLoop(r) THEN "aborted" ELSE "complete"
                            /\ UNCHANGED metric_idx
                       ELSE /\ metric_idx' = metric_idx + 1
                            /\ batch' = "none"
                            /\ data' = DataWhileRefreshing(data, body, acc)
                            /\ UNCHANGED <<pc, last_update_success, last_exception>>
    /\ UNCHANGED <<body, status_resp, prev_data, seen, device>>

\* a consumer (a sensor, the camera's device info) reads coordinator.data
ReadData ==
    /\ seen # [read |-> TRUE, value |-> data]
    /\ seen' = [read |-> TRUE, value |-> data]
    /\ UNCHANGED <<data, last_update_success, last_exception, pc, body,
                   analytic_data, metric_idx, elapsed, status_resp,
                   responses, batch, prev_data, device>>

-----------------------------------------------------------------------------
(* The MJPEG frame extractor: Athena2Camera._extract_mjpeg_frame *)

\* Bytes are tokens.  "FF", "D8", "D9" are those bytes, "n" is one byte of
\* noise or image data, " ", "0", "1" are ASCII characters, "CRLF" is \r\n,
\* "CL" is the text Content-Length: and "PAD" is one full chunk of noise.

\* iter_chunked(4096)
ChunkSize == 4096

\* content_length + 1000
ValveMargin == 1000

\* 2 * 1024 * 1024
BufferCeiling == 2 * 1024 * 1024

TokenSize(t) ==
    CASE t = "CL" -> 15
      [] t = "CRLF" -> 2
      [] t = "PAD" -> ChunkSize
      [] OTHER -> 1

\* how often the token t occurs in b
Count(b, t) == Cardinality({i \in 1..Len(b) : b[i] = t})

\* len() of a byte string: one byte per token, more for the long tokens
ByteLen(b) ==
    Len(b) + (TokenSize("CL") - 1) * Count(b, "CL")
           + (TokenSize("CRLF") - 1) * Count(b, "CRLF")
           + (TokenSize("PAD") - 1) * Count(b, "PAD")

\* the least element of a non-empty set of numbers
Least(S) == CHOOSE i \in S : \A j \in S : i <= j

\* bytes.find of a two-byte marker: the position of its first byte, counted
\* from 1, or 0 where find gives -1
Find(b, first, second) ==
    LET hits == {i \in 1..(Len(b) - 1) : b[i] = first /\ b[i + 1] = second}
    IN  IF hits = {} THEN 0 ELSE Least(hits)

\* b"Content-Length:" in buffer
HasLengthLine(b) == \E i \in 1..Len(b) : b[i] = "CL"

\* buffer.split(b"Content-Length:")[1].split(b"\r\n")[0]
LengthLine(b) ==
    LET from == Least({i \in 1..Len(b) : b[i] = "CL"})
        stops == {i \in (from + 1)..Len(b) : b[i] \in {"CL", "CRLF"}}
        to == IF stops = {} THEN Len(b) ELSE Least(stops) - 1
    IN  SubSeq(b, from + 1, to)

\* int(length_line.strip()) does not raise ValueError
IntOk(line) ==
    /\ Len(Strip(line)) > 0
    /\ \A i \in 1..Len(Strip(line)) : Strip(line)[i] \in Digits

IntVal(line) == DigitsVal(Strip(line))

NoLength == [known |-> FALSE, n |-> 0]

Length(n) == [known |-> TRUE, n |-> n]

\* _extract_mjpeg_frame returned None / returned bytes
NoFrame == [some |-> FALSE, bytes |-> <<>>]

Frame(b) == [some |-> TRUE, bytes |-> b]

\* a buffer that keeps only the chunk just read
AccumulateLatest(buf, chunk) == chunk

\* buffer += chunk
Accumulate(buf, chunk) == buf \o chunk

\* the locals on entry to the loop
ExtractStart ==
    [buffer |-> <<>>, content_length |-> NoLength, in_jpeg |-> FALSE,
     epc |-> "reading", jpeg_data |-> NoFrame]

\* one iteration of the loop over the chunks, with the return or the break
\* that may end it
ExtractStep(st, chunk) ==
    LET b1 == Accumulate(st.buffer, chunk)
        cl == IF ~st.in_jpeg /\ HasLengthLine(b1) /\ IntOk(LengthLine(b1))
              THEN Length(IntVal(LengthLine(b1)))
              ELSE st.content_length
        jpeg_start == IF st.in_jpeg THEN 0 ELSE Find(b1, "FF", "D8")
        inj == st.in_jpeg \/ jpeg_start # 0
        b2 == IF jpeg_start # 0 THEN SubSeq(b1, jpeg_start, Len(b1)) ELSE b1
        jpeg_end == Find(b2, "FF", "D9")
        valve == cl.known /\ cl.n # 0 /\ ByteLen(b2) >= cl.n + ValveMargin
        returns == jpeg_end # 0 /\ (inj \/ valve)
    IN  [buffer |-> b2,
         content_length |-> cl,
         in_jpeg |-> inj,
         epc |-> IF returns \/ ByteLen(b2) > BufferCeiling
                 THEN "done" ELSE "reading",
         jpeg_data |-> IF returns
                       THEN Frame(SubSeq(b2, 1, jpeg_end + 1))
                       ELSE NoFrame]

RECURSIVE ExtractRun(_, _, _)
\* the loop over a stream that is known in full: the chunks cs, then eof or
\* an error (both give None)
ExtractRun(st, cs, tl) ==
    IF st.epc = "done" THEN st.jpeg_data
    ELSE IF tl = "error" \/ Len(cs) = 0 THEN NoFrame
    ELSE ExtractRun(ExtractStep(st, Head(cs)), Tail(cs), tl)

ExtractResult(cs, tl) == ExtractRun(ExtractStart, cs, tl)

(* The streams the extractor is run on *)

BodyTokens == {"FF", "D8", "D9", "n", "PAD"}

Bodies == UNION {[1..n -> BodyTokens] : n \in 0..MaxBody}

Run(t, k) == [i \in 1..k |-> t]

\* [noise][FF D8][jpeg-bytes][FF D9][trailing noise]
FramedBodies ==
    {Run("n", a) \o <<"FF", "D8">> \o Run("n", b) \o <<"FF", "D9">> \o Run("n", c) :
        a \in 0..MaxRun, b \in 0..MaxRun, c \in 0..MaxRun}

HeaderLines ==
    {<<>>,
     <<"CL", " ", "1", "CRLF">>,
     <<"CL", " ", "0", "CRLF">>,
     <<"CL", " ", "n", "CRLF">>}

\* a chunk holds at most ChunkSize bytes: a PAD is a chunk of its own
ForcedCuts(b) ==
    {i \in 1..(Len(b) - 1) : b[i] = "PAD" \/ b[i + 1] = "PAD"}

CutSets(b) ==
    {ForcedCuts(b) \cup c : c \in {x \in SUBSET (1..(Len(b) - 1)) : Cardinality(x) <= MaxCuts}}

RECURSIVE ChunksFrom(_, _, _)
\* b from position lo on, cut after every position in cuts
ChunksFrom(b, cuts, lo) ==
    IF lo > Len(b) THEN <<>>
    ELSE LET hi == Least({c \in cuts : c >= lo} \cup {Len(b)})
         IN  <<SubSeq(b, lo, hi)>> \o ChunksFrom(b, cuts, hi + 1)

\* the chunks of the stream that opens with the line h: h arrives with the
\* first chunk when both fit in one chunk
WithHeader(h, cs) ==
    IF h = <<>> THEN cs
    ELSE IF cs = <<>> \/ ByteLen(h \o Head(cs)) > ChunkSize THEN <<h>> \o cs
    ELSE <<h \o Head(cs)>> \o Tail(cs)

\* as many full chunks as it takes to pass the ceiling
CeilingChunks == BufferCeiling \div ChunkSize + 1

\* stream bodies that are followed by noise without end, or by a frame that
\* arrives after more noise than the ceiling holds
LongBodies ==
    {<<>>, <<"FF", "D8">>, <<"FF", "D9">>, <<"PAD", "FF", "D8">>}

LateFrame == Run(<<"PAD">>, CeilingChunks) \o << <<"FF", "D8", "n", "FF", "D9">> >>

RECURSIVE Flatten(_)
Flatten(cs) == IF Len(cs) = 0 THEN <<>> ELSE Head(cs) \o Flatten(Tail(cs))

\* all bytes of the stream up to its tail
Stream == header \o Flatten(body_chunks)

ExtractIdle ==
    /\ header = <<>>
    /\ body_chunks = <<>>
    /\ tail = "eof"
    /\ chunks = <<>>
    /\ buffer = <<>>
    /\ content_length = NoLength
    /\ in_jpeg = FALSE
    /\ jpeg_data = NoFrame
    /\ epc = "idle"
    /\ nread = 0

\* the call of _extract_mjpeg_frame on a response
ExtractEntry ==
    /\ \/ /\ \E b \in Bodies \cup FramedBodies :
                 \E cuts \in CutSets(b) : body_chunks = ChunksFrom(b, cuts, 1)
          /\ tail = "eof"
       \/ /\ \E b \in FramedBodies :
                 \E cuts \in CutSets(b) : body_chunks = ChunksFrom(b, cuts, 1)
          /\ tail = "error"
       \/ /\ \E b \in LongBodies : body_chunks = ChunksFrom(b, ForcedCuts(b), 1)
          /\ tail = "endless"
       \/ /\ \E b \in LongBodies :
                 body_chunks = ChunksFrom(b, ForcedCuts(b), 1) \o LateFrame
          /\ tail = "eof"
    /\ header \in HeaderLines
    /\ chunks = WithHeader(header, body_chunks)
    /\ buffer = ExtractStart.buffer
    /\ content_length = ExtractStart.content_length
    /\ in_jpeg = ExtractStart.in_jpeg
    /\ jpeg_data = ExtractStart.jpeg_data
    /\ epc = ExtractStart.epc
    /\ nread = 0

\* the locals as one record
Locals ==
    [buffer |-> buffer, content_length |-> content_length, in_jpeg |-> in_jpeg,
     epc |-> epc, jpeg_data |-> jpeg_data]

\* the loop body on the chunk c
Iterate(c) ==
    LET st == ExtractStep(Locals, c)
    IN  /\ buffer' = st.buffer
        /\ content_length' = st.content_length
        /\ in_jpeg' = st.in_jpeg
        /\ jpeg_data' = st.jpeg_data
        /\ epc' = st.epc
        /\ nread' = nread + ByteLen(c)

\* the next chunk of the response arrives
ReadChunk ==
    /\ epc = "reading"
    /\ chunks # <<>>
    /\ Iterate(Head(chunks))
    /\ chunks' = Tail(chunks)
    /\ UNCHANGED <<header, body_chunks, tail>>

\* a stream without end delivers one more chunk of noise
ReadEndless ==
    /\ epc = "reading"
    /\ chunks = <<>>
    /\ tail = "endless"
    /\ Iterate(<<"PAD">>)
    /\ UNCHANGED <<header, body_chunks, tail, chunks>>

\* the response ends: the loop is left and None returned
EndOfStream ==
    /\ epc = "reading"
    /\ chunks = <<>>
    /\ tail = "eof"
    /\ epc' = "done"
    /\ jpeg_data' = NoFrame
    /\ UNCHANGED <<header, body_chunks, tail, chunks, buffer, content_length,
                   in_jpeg, nread>>

\* reading the response raises: the except branch returns None
StreamError ==
    /\ epc = "reading"
    /\ tail = "error"
    /\ epc' = "done"
    /\ jpeg_data' = NoFrame
    /\ UNCHANGED <<header, body_chunks, tail, chunks, buffer, content_length,
                   in_jpeg, nread>>

-----------------------------------------------------------------------------
(* The rate-limited camera: Athena2Camera.async_camera_image *)

\* DEFAULT_CAMERA_FPS
DEFAULT_CAMERA_FPS == 1

\* async_timeout.timeout(15)
CameraTimeout == 15

CameraTimeoutMs == CameraTimeout * 1000

\* the configured frame rates the camera is built with
CameraFpsChoices == {DEFAULT_CAMERA_FPS, 2 * DEFAULT_CAMERA_FPS}

\* self._frame_interval = 1.0 / camera_fps, in ms
FrameInterval == 1000 \div camera_fps

CallIds == 1..NumCalls

\* what the GET of the stream url meets
StreamHangs == [kind |-> "no_answer", status |-> 0, chunks |-> <<>>, tail |-> "eof"]

StreamRefused == [kind |-> "client_error", status |-> 0, chunks |-> <<>>, tail |-> "eof"]

StreamResponse(st, cs, tl) == [kind |-> "stream", status |-> st, chunks |-> cs, tail |-> tl]

FrameA == <<"FF", "D8", "n", "FF", "D9">>

FrameB == <<"FF", "D8", "n", "n", "FF", "D9">>

CameraStreams ==
    {<< FrameA >>,
     << <<"n", "FF">>, <<"D8", "n", "n", "FF", "D9", "n">> >>,
     << <<"n">> >>,
     <<>>}

CameraResponses ==
    {StreamHangs, StreamRefused}
        \cup {StreamResponse(st, cs, "eof") : st \in {200, 500}, cs \in CameraStreams}
        \cup {StreamResponse(200, << <<"FF", "D8">> >>, "error")}

\* image.rotate(-90, expand=True) saved again as JPEG: other bytes than the
\* frame, the same for the same frame
Rotate(bytes) == <<"rotated">> \o bytes

\* a failure branch that returns None whatever is cached
FailureResultNone(cached) == NoFrame

\* return self._last_image of lines 115, 136, 139 and 142
FailureResult(cached) == cached

\* how the try block of a call ends: r is what the GET met, waited the ms since
\* the block was entered, decodes whether Pillow opens, rotates and saves the
\* frame without raising
CaptureOutcome(r, waited, decodes) ==
    IF r.kind = "no_answer" \/ waited >= CameraTimeoutMs THEN "timeout"
    ELSE IF r.kind = "client_error" THEN "client_error"
    ELSE IF r.status >= 400 THEN "client_error"
    ELSE IF ~ExtractResult(r.chunks, r.tail).some THEN "empty"
    ELSE IF ~decodes THEN "image_error"
    ELSE "ok"

NewCall ==
    [pc |-> "new", current_time |-> 0, outcome |-> "none", result |-> NoFrame,
     requested |-> FALSE, alone |-> FALSE,
     seen_image |-> NoFrame, seen_time |-> 0,
     found_image |-> NoFrame, found_time |-> 0,
     left_image |-> NoFrame, left_time |-> 0]

\* the camera after __init__, at some wall-clock time
CameraStart ==
    /\ camera_fps \in CameraFpsChoices
    /\ last_frame_time = 0
    /\ last_image = NoFrame
    /\ wall_clock = StartClock
    /\ ticks = 0
    /\ requests = 0
    /\ calls = [c \in CallIds |-> NewCall]

CameraIdle ==
    /\ camera_fps = DEFAULT_CAMERA_FPS
    /\ last_frame_time = 0
    /\ last_image = NoFrame
    /\ wall_clock = StartClock
    /\ ticks = 0
    /\ requests = 0
    /\ calls = [c \in CallIds |-> NewCall]

\* a test that looks at the cached image only
CacheFreshImageOnly(current_time) == last_image.some

\* the test of line 96
CacheFresh(current_time) ==
    current_time - last_frame_time < FrameInterval /\ last_image.some

\* no earlier call is suspended in its capture when call c enters
Alone(c) == \A d \in CallIds : d < c => calls[d].pc = "done"

\* calls enter in the order of their ids
MayEnter(c) ==
    /\ calls[c].pc = "new"
    /\ \A d \in CallIds : d < c => calls[d].pc # "new"

\* a call that finds the cache fresh returns it (lines 91-103)
ReturnCached(c) ==
    /\ MayEnter(c)
    /\ CacheFresh(wall_clock)
    /\ calls' = [calls EXCEPT ![c] =
                    [pc |-> "done", current_time |-> wall_clock, outcome |-> "cached",
                     result |-> last_image, requested |-> FALSE,
                     alone |-> Alone(c),
                     seen_image |-> last_image, seen_time |-> last_frame_time,
                     found_image |-> last_image, found_time |-> last_frame_time,
                     left_image |-> last_image, left_time |-> last_frame_time]]
    /\ UNCHANGED <<camera_fps, last_image, last_frame_time, wall_clock, ticks, requests>>

\* a call that does not issues the GET of line 107 and is suspended on it
RequestStream(c) ==
    /\ MayEnter(c)
    /\ ~CacheFresh(wall_clock)
    /\ calls' = [calls EXCEPT ![c] =
                    [@ EXCEPT !.pc = "fetching", !.current_time = wall_clock,
                              !.requested = TRUE,
                              !.alone = Alone(c),
                              !.seen_image = last_image,
                              !.seen_time = last_frame_time]]
    /\ requests' = requests + 1
    /\ UNCHANGED <<camera_fps, last_image, last_frame_time, wall_clock, ticks>>

\* a capture that stamps the cache whatever it came to
TimeAfterAnyCapture(outcome, started, cached_time) == started

\* self._last_frame_time after the try block: line 131 is reached only by a
\* capture that produced rotated_bytes
TimeAfter(outcome, started, cached_time) ==
    IF outcome = "ok" THEN started ELSE cached_time

\* self._last_image after the try block: line 130
ImageAfter(outcome, rotated_bytes, cached) ==
    IF outcome = "ok" THEN rotated_bytes ELSE cached

\* the suspended call goes on to its return (lines 108-142)
FinishCapture(c) ==
    /\ calls[c].pc = "fetching"
    /\ \E r \in CameraResponses, decodes \in BOOLEAN :
        LET waited == wall_clock - calls[c].current_time
            outcome == CaptureOutcome(r, waited, decodes)
            rotated_bytes == Frame(Rotate(ExtractResult(r.chunks, r.tail).bytes))
        IN  /\ r.kind = "no_answer" => waited >= CameraTimeoutMs
            /\ last_image' = ImageAfter(outcome, rotated_bytes, last_image)
            /\ last_frame_time' = TimeAfter(outcome, calls[c].current_time,
                                            last_frame_time)
            /\ calls' = [calls EXCEPT ![c] =
                            [@ EXCEPT !.pc = "done", !.outcome = outcome,
                                      !.result = IF outcome = "ok"
                                                 THEN rotated_bytes
                                                 ELSE FailureResult(last_image),
                                      !.found_image = last_image,
                                      !.found_time = last_frame_time,
                                      !.left_image = last_image',
                                      !.left_time = last_frame_time']]
    /\ UNCHANGED <<camera_fps, wall_clock, ticks, requests>>

\* wall-clock time passes: a little
Tick ==
    /\ ticks < MaxTicks
    /\ wall_clock' = wall_clock + ClockStep
    /\ ticks' = ticks + 1
    /\ UNCHANGED <<camera_fps, last_image, last_frame_time, requests, calls>>

\* wall-clock time passes: as long as the timeout of a capture
WaitTimeout ==
    /\ ticks < MaxTicks
    /\ wall_clock' = wall_clock + CameraTimeoutMs
    /\ ticks' = ticks + 1
    /\ UNCHANGED <<camera_fps, last_image, last_frame_time, requests, calls>>

\* a camera that is available only while it also holds an image
AvailableWithImage == last_update_success /\ last_image.some

\* Athena2Camera.available: return self._coordinator.last_update_success
Available == last_update_success

\* the record of the one call of a camera that has captured once, at StartClock
CapturedCall(outcome, image) ==
    [pc |-> "done", current_time |-> StartClock, outcome |-> outcome,
     result |-> image, requested |-> TRUE, alone |-> TRUE,
     seen_image |-> NoFrame, seen_time |-> 0,
     found_image |-> NoFrame, found_time |-> 0, left_image |-> image,
     left_time |-> IF image.some THEN StartClock ELSE 0]

\* the camera after its first call has run RequestStream and FinishCapture:
\* with the rotated frame of a good stream, or with nothing after a refusal
CameraRest(ok) ==
    /\ camera_fps = DEFAULT_CAMERA_FPS
    /\ last_image = IF ok THEN Frame(Rotate(FrameA)) ELSE NoFrame
    /\ last_frame_time = IF ok THEN StartClock ELSE 0
    /\ wall_clock = StartClock
    /\ ticks = 0
    /\ requests = 1
    /\ calls = [c \in CallIds |->
                   IF c = 1
                   THEN IF ok THEN CapturedCall("ok", Frame(Rotate(FrameA)))
                        ELSE CapturedCall("client_error", NoFrame)
                   ELSE NewCall]

-----------------------------------------------------------------------------
(* The services and the config entries: __init__.py *)

SERVICE_PAUSE_PRINT == "pause_print"
SERVICE_RESUME_PRINT == "resume_print"
SERVICE_CANCEL_PRINT == "cancel_print"
SERVICE_SET_AUTO_SHUTDOWN == "set_auto_shutdown"
SERVICE_START_PRINT == "start_print"
SERVICE_SHUTDOWN == "shutdown"
SERVICE_REBOOT == "reboot"

AllServices ==
    {SERVICE_PAUSE_PRINT, SERVICE_RESUME_PRINT, SERVICE_CANCEL_PRINT,
     SERVICE_SET_AUTO_SHUTDOWN, SERVICE_START_PRINT, SERVICE_SHUTDOWN,
     SERVICE_REBOOT}

ENDPOINT_PAUSE == "/printer/pause"
ENDPOINT_UNPAUSE == "/printer/unpause"
ENDPOINT_STOP == "/printer/stop"
ENDPOINT_AUTO_SHUTDOWN_ENABLE == "/printer/auto-shutdown/enable"
ENDPOINT_AUTO_SHUTDOWN_DISABLE == "/printer/auto-shutdown/disable"
ENDPOINT_START_PRINT == "/printer/start/"
ENDPOINT_SHUTDOWN == "/printer/off"
ENDPOINT_REBOOT == "/printer/restart"

\* the config entries of the integration
Entries == 1..NumEntries

\* entity ids: entity k belongs to entry k; NumEntries + 1 is an entity of
\* another integration; 0 is not in the entity registry
EntityIds == 0..(NumEntries + 1)

InEntityRegistry(entity) == entity # 0

\* entity_entry.config_entry_id
ConfigEntryOf(entity) == entity

\* the host each entry is configured with, and CONF_PORT
HostOf(entry) == <<"printer", entry>>

PortOf(entry) == 80

\* call.data["entity_id"]: nothing, one entity id, or a list of them
Targets ==
    {<<>>} \cup {<<x>> : x \in EntityIds} \cup {<<x, y>> : x, y \in Entries}

\* call.data["plate_id"]: "" stands for a missing or empty value
PlateIds == {"", "7"}

\* the attributes an Athena2Coordinator has: those __init__ sets and those of
\* DataUpdateCoordinator
CoordinatorAttributes ==
    {"host", "port", "_session", "_status_url", "hass", "logger", "name",
     "update_interval", "data", "last_update_success", "last_exception",
     "config_entry"}

\* an attribute lookup on the coordinator does not raise AttributeError
HasAttr(name) == name \in CoordinatorAttributes

\* what the GET of a control endpoint meets
ControlResponses ==
    {[kind |-> "no_answer", status |-> 0], [kind |-> "client_error", status |-> 0],
     [kind |-> "response", status |-> 200], [kind |-> "response", status |-> 500]}

\* the path the handler of the service builds
EndpointOf(service, enabled, plate_id) ==
    CASE service = SERVICE_PAUSE_PRINT -> <<ENDPOINT_PAUSE>>
      [] service = SERVICE_RESUME_PRINT -> <<ENDPOINT_UNPAUSE>>
      [] service = SERVICE_CANCEL_PRINT -> <<ENDPOINT_STOP>>
      [] service = SERVICE_SET_AUTO_SHUTDOWN ->
            IF enabled THEN <<ENDPOINT_AUTO_SHUTDOWN_ENABLE>>
            ELSE <<ENDPOINT_AUTO_SHUTDOWN_DISABLE>>
      [] service = SERVICE_START_PRINT -> <<ENDPOINT_START_PRINT, plate_id>>
      [] service = SERVICE_SHUTDOWN -> <<ENDPOINT_SHUTDOWN>>
      [] service = SERVICE_REBOOT -> <<ENDPOINT_REBOOT>>

\* the handlers that await coordinator.async_request_refresh() after the GET
RefreshingServices == AllServices \ {SERVICE_SHUTDOWN, SERVICE_REBOOT}

\* _get_coordinator_from_call: the entry whose coordinator it returns, or 0
\* when it raises HomeAssistantError
GetCoordinatorFromCall(target, reg) ==
    IF Len(target) = 0 THEN 0
    ELSE IF ~InEntityRegistry(target[1]) THEN 0
    ELSE IF ConfigEntryOf(target[1]) \notin reg THEN 0
    ELSE ConfigEntryOf(target[1])

Ended(how, entry, issued, refreshed) ==
    [outcome |-> how, coordinator |-> entry, gets |-> issued, refreshed |-> refreshed]

\* the attribute through which the handlers reach the HTTP session
SessionAttribute == "session"

\* a handler from its first line to its return or raise: the coordinator it
\* resolves, the GETs it issues and the coordinators it asks to refresh
RunHandler(service, target, enabled, plate_id, r, reg) ==
    LET entry == GetCoordinatorFromCall(target, reg)
        get == [host |-> HostOf(entry), port |-> PortOf(entry),
                path |-> EndpointOf(service, enabled, plate_id)]
    IN  IF entry = 0 THEN Ended("HomeAssistantError", 0, <<>>, {})
        ELSE IF service = SERVICE_START_PRINT /\ plate_id = ""
        THEN Ended("HomeAssistantError", entry, <<>>, {})
        ELSE IF ~HasAttr(SessionAttribute)
        THEN Ended("AttributeError", entry, <<>>, {})
        ELSE IF r.kind \in {"no_answer", "client_error"} \/ r.status >= 400
        THEN Ended("HomeAssistantError", entry, <<get>>, {})
        ELSE IF service \in RefreshingServices
        THEN Ended("returned", entry, <<get>>, {entry})
        ELSE Ended("returned", entry, <<get>>, {})

NoCall ==
    [service |-> "none", target |-> <<>>, enabled |-> FALSE, plate_id |-> "",
     response |-> [kind |-> "none", status |-> 0], registry |-> {},
     outcome |-> "none", coordinator |-> 0, gets |-> <<>>, refreshed |-> {}]

ServicesIdle ==
    /\ entry_state = [e \in Entries |-> "not_loaded"]
    /\ first_ok = [e \in Entries |-> FALSE]
    /\ registry = {}
    /\ services = {}
    /\ last_call = NoCall

\* Home Assistant starts async_setup_entry for an entry that is not loaded:
\* the coordinator is built and its first refresh awaited (lines 73-91)
SetupEntry(e) ==
    /\ entry_state[e] = "not_loaded"
    /\ entry_state' = [entry_state EXCEPT ![e] = "refreshing"]
    /\ first_ok' = [first_ok EXCEPT ![e] = FALSE]
    /\ UNCHANGED <<registry, services, last_call>>

\* the first refresh ends: ConfigEntryNotReady, or lines 93-97
FirstRefresh(e) ==
    /\ entry_state[e] = "refreshing"
    /\ \E ok \in BOOLEAN :
        /\ first_ok' = [first_ok EXCEPT ![e] = ok]
        /\ entry_state' = [entry_state EXCEPT ![e] =
                               IF ok THEN "forwarding" ELSE "not_loaded"]
        /\ registry' = IF ok THEN registry \cup {e} ELSE registry
    /\ UNCHANGED <<services, last_call>>

\* the platforms are set up: every service that is not registered yet is
\* registered (lines 230-249)
RegisterServices(e) ==
    /\ entry_state[e] = "forwarding"
    /\ entry_state' = [entry_state EXCEPT ![e] = "loaded"]
    /\ services' = services \cup {s \in AllServices : s \notin services}
    /\ UNCHANGED <<registry, first_ok, last_call>>

\* an unload that removes the services whatever is left in the registry
ServicesAfterUnloadAlways(reg, svcs) == svcs \ AllServices

\* lines 258-265: the services are removed when the registry is empty
ServicesAfterUnload(reg, svcs) ==
    IF reg = {} THEN svcs \ AllServices ELSE svcs

\* Home Assistant starts async_unload_entry for a loaded entry (line 254)
UnloadEntry(e) ==
    /\ entry_state[e] = "loaded"
    /\ entry_state' = [entry_state EXCEPT ![e] = "unloading"]
    /\ UNCHANGED <<registry, services, first_ok, last_call>>

\* the platforms are unloaded, or not (lines 254-267)
FinishUnload(e) ==
    /\ entry_state[e] = "unloading"
    /\ \E unload_ok \in BOOLEAN :
        IF unload_ok
        THEN /\ registry' = registry \ {e}
             /\ services' = ServicesAfterUnload(registry \ {e}, services)
             /\ entry_state' = [entry_state EXCEPT ![e] = "not_loaded"]
        ELSE /\ entry_state' = [entry_state EXCEPT ![e] = "failed_unload"]
             /\ UNCHANGED <<registry, services>>
    /\ UNCHANGED <<first_ok, last_call>>

\* a registered service is called and its handler runs to its end; one call
\* is followed through each behaviour
CallService ==
    /\ last_call = NoCall
    /\ \E service \in services, target \in Targets, enabled \in BOOLEAN,
          plate_id \in PlateIds, r \in ControlResponses :
        /\ service # SERVICE_SET_AUTO_SHUTDOWN => ~enabled
        /\ service # SERVICE_START_PRINT => plate_id = ""
        /\ LET run == RunHandler(service, target, enabled, plate_id, r, registry)
           IN  last_call' =
                   [service |-> service, target |-> target, enabled |-> enabled,
                    plate_id |-> plate_id, response |-> r, registry |-> registry,
                    outcome |-> run.outcome, coordinator |-> run.coordinator,
                    gets |-> run.gets, refreshed |-> run.refreshed]
    /\ UNCHANGED <<entry_state, first_ok, registry, services>>

-----------------------------------------------------------------------------
(* The specifications *)

NormIdle ==
    /\ raw = NoData
    /\ once = NoData
    /\ twice = NoData
    /\ npc = 0

Init == CycleInit /\ NormIdle /\ ExtractIdle /\ CameraIdle /\ ServicesIdle

Next ==
    \/ StartRefresh /\ UNCHANGED <<normVars, frameVars, cameraVars, serviceVars>>
    \/ FetchStatus /\ UNCHANGED <<normVars, frameVars, cameraVars, serviceVars>>
    \/ FetchMetric /\ UNCHANGED <<normVars, frameVars, cameraVars, serviceVars>>
    \/ ReadData /\ UNCHANGED <<normVars, frameVars, cameraVars, serviceVars>>

Spec == Init /\ [][Next]_vars

-----------------------------------------------------------------------------
(* The refresh cycle of a coordinator whose camera has been used *)

InitAvailable ==
    /\ CycleInit
    /\ NormIdle
    /\ ExtractIdle
    /\ ServicesIdle
    /\ \/ CameraIdle
       \/ \E ok \in BOOLEAN : CameraRest(ok)

SpecAvailable == InitAvailable /\ [][Next]_vars

-----------------------------------------------------------------------------
(* The refresh cycle against a printer that may be silent, with the event loop
   resuming every task whose answer or timer is due *)

InitLive ==
    /\ CycleStart
    /\ device \in Devices
    /\ NormIdle
    /\ ExtractIdle
    /\ CameraIdle
    /\ ServicesIdle

SpecLive ==
    /\ InitLive
    /\ [][Next]_vars
    /\ WF_cycleVars(FetchStatus)
    /\ WF_cycleVars(FetchMetric)

-----------------------------------------------------------------------------
(* The normalizer on its own *)

InitNormalize ==
    /\ CycleInit
    /\ ServicesIdle
    /\ ExtractIdle
    /\ CameraIdle
    /\ raw \in RawInputs
    /\ once = NoData
    /\ twice = NoData
    /\ npc = 0

\* normalize(raw)
ApplyNormalize ==
    /\ npc = 0
    /\ once' = NormalizeData(raw)
    /\ npc' = 1
    /\ UNCHANGED <<raw, twice>>

\* normalize applied to its own output
ReapplyNormalize ==
    /\ npc = 1
    /\ twice' = NormalizeData(once)
    /\ npc' = 2
    /\ UNCHANGED <<raw, once>>

NextNormalize ==
    \/ ApplyNormalize /\ UNCHANGED <<cycleVars, frameVars, cameraVars, serviceVars>>
    \/ ReapplyNormalize /\ UNCHANGED <<cycleVars, frameVars, cameraVars, serviceVars>>

SpecNormalize == InitNormalize /\ [][NextNormalize]_vars

-----------------------------------------------------------------------------
(* The frame extractor on its own *)

InitExtract ==
    /\ CycleInit
    /\ ServicesIdle
    /\ NormIdle
    /\ CameraIdle
    /\ ExtractEntry

NextExtract ==
    \/ ReadChunk /\ UNCHANGED <<cycleVars, normVars, cameraVars, serviceVars>>
    \/ ReadEndless /\ UNCHANGED <<cycleVars, normVars, cameraVars, serviceVars>>
    \/ EndOfStream /\ UNCHANGED <<cycleVars, normVars, cameraVars, serviceVars>>
    \/ StreamError /\ UNCHANGED <<cycleVars, normVars, cameraVars, serviceVars>>

SpecExtract == InitExtract /\ [][NextExtract]_vars

-----------------------------------------------------------------------------
(* The camera on its own *)

InitCamera ==
    /\ CycleInit
    /\ ServicesIdle
    /\ NormIdle
    /\ ExtractIdle
    /\ CameraStart

NextCamera ==
    \/ \E c \in CallIds : ReturnCached(c) /\ UNCHANGED <<cycleVars, normVars, frameVars, serviceVars>>
    \/ \E c \in CallIds : RequestStream(c) /\ UNCHANGED <<cycleVars, normVars, frameVars, serviceVars>>
    \/ \E c \in CallIds : FinishCapture(c) /\ UNCHANGED <<cycleVars, normVars, frameVars, serviceVars>>
    \/ Tick /\ UNCHANGED <<cycleVars, normVars, frameVars, serviceVars>>
    \/ WaitTimeout /\ UNCHANGED <<cycleVars, normVars, frameVars, serviceVars>>

SpecCamera == InitCamera /\ [][NextCamera]_vars

-----------------------------------------------------------------------------
(* The services and the config entries on their own *)

InitServices ==
    /\ CycleInit
    /\ NormIdle
    /\ ExtractIdle
    /\ CameraIdle
    /\ ServicesIdle

NextServices ==
    \/ \E e \in Entries : SetupEntry(e) /\ UNCHANGED <<cycleVars, normVars, frameVars, cameraVars>>
    \/ \E e \in Entries : FirstRefresh(e) /\ UNCHANGED <<cycleVars, normVars, frameVars, cameraVars>>
    \/ \E e \in Entries : RegisterServices(e) /\ UNCHANGED <<cycleVars, normVars, frameVars, cameraVars>>
    \/ \E e \in Entries : UnloadEntry(e) /\ UNCHANGED <<cycleVars, normVars, frameVars, cameraVars>>
    \/ \E e \in Entries : FinishUnload(e) /\ UNCHANGED <<cycleVars, normVars, frameVars, cameraVars>>
    \/ CallService /\ UNCHANGED <<cycleVars, normVars, frameVars, cameraVars>>

SpecServices == InitServices /\ [][NextServices]_vars

-----------------------------------------------------------------------------
(* Properties of the refresh cycle (checked under Spec) *)

\* a refresh cycle has run and is over
CycleOver == pc = "idle" /\ status_resp # NotRequested

\* the status GET did not produce a JSON document with a 2xx status
StatusRequestFailed(r) ==
    \/ r.kind \in {"no_answer", "client_error"}
    \/ r.kind = "response" /\ (r.status < 200 \/ r.status > 299)
    \/ r.kind = "response" /\ r.body = "not_json"

\* the status GET produced a 2xx JSON object with Status
StatusRequestGood(r) ==
    /\ r.kind = "response" /\ r.status = 200 /\ r.body = "json"
    /\ "Status" \in DOMAIN r.obj

\* the ids requested in this cycle whose request met a response of kind P
Requested == {i \in MetricIds : i + 1 <= Len(responses)}

ObtainedIds == {i \in Requested : Answered200Numeric(responses[i + 1])}

ObtainedKeys == {MetricKey(i) : i \in ObtainedIds}

TimedOutIds == {i \in Requested : responses[i + 1].kind = "no_answer"}

\* C1: a status GET that returns a non-2xx status, fails in transport, times
\* out or returns a body that is not JSON makes the refresh raise UpdateFailed,
\* and the published Snapshot stays exactly what it was before the cycle.
C1_StatusFailureKeepsSnapshot ==
    (CycleOver /\ StatusRequestFailed(status_resp)) =>
        /\ last_exception.class = "UpdateFailed"
        /\ ~last_update_success
        /\ data = prev_data
        /\ responses = <<>>

\* a cycle failed on an HTTP 500 while a Snapshot was published
C1_Witness ==
    /\ CycleOver
    /\ status_resp.kind = "response" /\ status_resp.status = 500
    /\ status_resp.body = "json"
    /\ prev_data # NoData
    /\ data = prev_data

\* C2: the published Snapshot, if there is one, contains Status; a decoded
\* status body without Status ends the cycle with UpdateFailed, no analytic
\* request is made and nothing is published for that cycle.
C2_PublishedHasStatus ==
    /\ data # NoData => "Status" \in DOMAIN data
    /\ (/\ CycleOver
        /\ status_resp.kind = "response" /\ status_resp.status = 200
        /\ status_resp.body = "json"
        /\ "Status" \notin DOMAIN status_resp.obj) =>
            /\ last_exception = UpdateFailed("MissingStatus")
            /\ ~last_update_success
            /\ data = prev_data
            /\ responses = <<>>

\* a body without Status arrived while a Snapshot was published
C2_Witness ==
    /\ CycleOver
    /\ status_resp = JsonResponse(200, BodyNoStatus)
    /\ last_exception.class = "UpdateFailed"
    /\ data # NoData

\* C3: when the status request succeeds and analytic requests time out (each
\* after its own 5 s), the cycle succeeds, whatever the number of timed-out
\* metrics, and the Snapshot holds exactly the metrics whose request succeeded.
C3_AnyNumberOfTimeouts ==
    (/\ CycleOver
     /\ StatusRequestGood(status_resp)
     /\ TimedOutIds # {}
     /\ \A i \in Requested \ TimedOutIds : Answered200Numeric(responses[i + 1])) =>
        /\ last_update_success
        /\ Requested = MetricIds
        /\ \A i \in MetricIds :
            MetricKey(i) \in DOMAIN data <=> i \notin TimedOutIds

\* the kinds of failure C4 is about: non-200, text that is no number, transport
ListedFailure(r) ==
    \/ r.kind = "client_error"
    \/ r.kind = "response" /\ r.status # 200
    \/ r.kind = "response" /\ r.status = 200 /\ r.body = "text" /\ ~FloatOk(Strip(r.text))

\* C4: in a cycle whose metrics each answer 200 with numeric text or fail by a
\* non-200 status, an unparsable body or a transport error, the failing metrics
\* are omitted, every other metric appears under its table name with the parsed
\* value, and the cycle succeeds.
C4_FailedMetricsOmitted ==
    (/\ CycleOver
     /\ StatusRequestGood(status_resp)
     /\ \A i \in Requested :
            Answered200Numeric(responses[i + 1]) \/ ListedFailure(responses[i + 1])) =>
        /\ last_update_success
        /\ Requested = MetricIds
        /\ \A i \in MetricIds :
            IF Answered200Numeric(responses[i + 1])
            THEN /\ MetricKey(i) \in DOMAIN data
                 /\ data[MetricKey(i)] = FloatVal(Strip(responses[i + 1].text))
            ELSE MetricKey(i) \notin DOMAIN data

\* a cycle where pressure (id 6) answered 500 and voc_outlet (id 27) answered
\* text that needs stripping
C4_Witness ==
    /\ CycleOver /\ last_update_success
    /\ Len(responses) = NumMetrics
    /\ responses[7].kind = "response" /\ responses[7].status = 500
    /\ responses[28].text = <<" ", "4", ".", "9", "\n">>
    /\ "pressure" \notin DOMAIN data
    /\ data["voc_outlet"] = Num(49, 1)
    /\ data["temperature_vat"] = Num(18, 0)

\* C5: every invocation of fetchAll requests each of the 28 metric ids,
\* whatever happened on the metrics before.
C5_BatchNeverAborted ==
    (CycleOver /\ batch # "none") => Requested = MetricIds

\* C6: a reader of coordinator.data sees the previous Snapshot in full or the
\* new one in full: while the refresh is suspended the published mapping is the
\* one from before the cycle, and it changes only to the fully built result.
C6_ReadersSeeWholeSnapshots ==
    /\ pc # "idle" => data = prev_data
    /\ (pc # "idle" /\ seen.read) => seen.value = prev_data
    /\ (CycleOver /\ seen.read) => seen.value \in {prev_data, data}
    /\ (CycleOver /\ last_update_success) =>
           data = NormalizeData(analytic_data @@ body)

\* a consumer read the old Snapshot while the refresh held a different status
\* body and some analytic values
C6_Witness ==
    /\ pc = "analytic"
    /\ metric_idx > 6
    /\ "pressure" \in DOMAIN analytic_data
    /\ prev_data # NoData
    /\ body["Status"] # prev_data["Status"]
    /\ seen = [read |-> TRUE, value |-> prev_data]

\* C7: a successful cycle publishes a Snapshot built only from this cycle's
\* status body and this cycle's successful metrics; a field of the previous
\* Snapshot that was not obtained in this cycle is absent.
C7_SnapshotFromThisCycleOnly ==
    (CycleOver /\ last_update_success) =>
        /\ DOMAIN data = DOMAIN status_resp.obj \cup ObtainedKeys
        /\ \A k \in DOMAIN status_resp.obj \ ObtainedKeys :
               data[k] = NormalizeField(k, status_resp.obj[k])
        /\ \A i \in ObtainedIds :
               data[MetricKey(i)] = FloatVal(Strip(responses[i + 1].text))
        /\ \A k \in DOMAIN prev_data \ (DOMAIN status_resp.obj \cup ObtainedKeys) :
               k \notin DOMAIN data

\* pressure, temp and disk were in the previous Snapshot and are not in the new
C7_Witness ==
    /\ CycleOver /\ last_update_success
    /\ {"pressure", "temp", "disk"} \subseteq DOMAIN prev_data
    /\ {"pressure", "temp", "disk"} \cap DOMAIN data = {}
    /\ "mem" \in DOMAIN data

\* the cycle that is over returned a mapping: the loop over the metrics ran to
\* its end or was left, and nothing cancelled it
CycleReturned == CycleOver /\ batch \in {"complete", "aborted"}

\* the cycle that is over raised: at the status request, or at the deadline
CycleRaised ==
    CycleOver /\ (StatusOutcome(status_resp) # "ok" \/ batch = "cancelled")

\* C24: last_update_success is true after a refresh that published a Snapshot
\* and false after a refresh that raised UpdateFailed, and the camera reports
\* itself available exactly when it is true, whatever its own captures came to
\* and whether or not it holds a cached image.  (Under SpecAvailable.)
C24_AvailableFollowsRefresh ==
    /\ CycleReturned => last_update_success /\ last_exception = NoException
    /\ CycleRaised => ~last_update_success /\ last_exception.class = "UpdateFailed"
    /\ CycleOver => (CycleReturned \/ CycleRaised)
    /\ Available <=> last_update_success

\* a camera that holds a cached image is unavailable after a failed refresh
C24_Witness ==
    /\ CycleRaised
    /\ last_image.some
    /\ calls[1].outcome = "ok"
    /\ ~Available

\* C25: within one refresh cycle no analytic request is issued unless the
\* status response was received, decoded and found to contain Status, and the
\* normalization runs only after every analytic request has completed or been
\* skipped: nothing is published while requests remain, and what is published
\* is the normalized merge of the status body with all that the requests of the
\* cycle yielded.
C25_StatusThenMetricsThenNormalize ==
    /\ (pc = "analytic" \/ Requested # {}) =>
            StatusRequestGood(status_resp) /\ body = status_resp.obj
    /\ pc = "analytic" => data = prev_data /\ batch = "none"
    /\ CycleReturned =>
        /\ batch = "complete" => Requested = MetricIds
        /\ batch = "aborted" => LeavesLoop(responses[Len(responses)])
        /\ \A k \in ObtainedKeys : k \in DOMAIN analytic_data
        /\ data = NormalizeData(Update(body, analytic_data))

\* every metric was requested after a good status, one of them timed out, and
\* the cycle published
C25_Witness ==
    /\ CycleReturned
    /\ batch = "complete"
    /\ Requested = MetricIds
    /\ TimedOutIds # {}
    /\ ObtainedIds # {}

\* C26: every refresh eventually terminates, with a Snapshot or with
\* UpdateFailed, even when the device never answers the status request or
\* never answers some or all of the analytic requests.  (Under SpecLive.)
C26_RefreshTerminates == (pc # "idle") ~> (CycleReturned \/ CycleRaised)

\* a cycle against a silent printer is over
C26_Witness ==
    /\ device # "answers"
    /\ CycleOver
    /\ status_resp = NoAnswer \/ TimedOutIds # {}

-----------------------------------------------------------------------------
(* Properties of the normalizer (checked under SpecNormalize) *)

\* C8: re-applying normalize does not alter CurrentHeight again: for every
\* numeric CurrentHeight the second application leaves the value of the first.
C8_HeightIdempotent ==
    (/\ npc = 2
     /\ "CurrentHeight" \in DOMAIN raw
     /\ raw["CurrentHeight"].t = "num") =>
        twice["CurrentHeight"] = once["CurrentHeight"]

\* C9: re-applying normalize is a no-op for disk, mem, proc and temp: a value
\* converted to a number is skipped the second time, and a text that could not
\* be parsed is the same text after every application.
C9_SuffixFieldsIdempotent ==
    npc = 2 =>
        \A k \in (PercentKeys \cup {"temp"}) \cap DOMAIN raw :
            /\ twice[k] = once[k]
            /\ once[k].t = "str" => (once[k] = raw[k] /\ twice[k] = raw[k])
            /\ (raw[k].t = "str" /\ once[k].t # "str") => once[k].t = "num"

\* "49%" became 49 and stayed 49; an unparsable text with a suffix stayed
C9_Witness ==
    /\ npc = 2
    /\ \/ /\ "disk" \in DOMAIN raw
          /\ raw["disk"] = Str(<<"4", "9", "%">>)
          /\ once["disk"] = Num(49, 0)
          /\ twice["disk"] = Num(49, 0)
       \/ /\ "temp" \in DOMAIN raw
          /\ raw["temp"] = Str(<<"-", "deg", "C">>)
          /\ twice["temp"] = raw["temp"]

\* Python's ==: numbers and booleans compare by value (0.0 == False)
PyEqual(a, b) ==
    IF a.t \in {"num", "bool"} /\ b.t \in {"num", "bool"}
    THEN a.m = b.m /\ a.e = b.e
    ELSE a = b

\* C10: for CurrentHeight normalize divides a number by 1000 and leaves a
\* string, a boolean and null untouched.
C10_HeightOnlyNumbersDivided ==
    (npc >= 1 /\ "CurrentHeight" \in DOMAIN raw) =>
        IF raw["CurrentHeight"].t = "num"
        THEN once["CurrentHeight"] = Num(raw["CurrentHeight"].m, raw["CurrentHeight"].e + 3)
        ELSE PyEqual(once["CurrentHeight"], raw["CurrentHeight"])

\* the text ends with the characters of suffix
EndsWith(text, suffix) ==
    /\ Len(text) >= Len(suffix)
    /\ SubSeq(text, Len(text) - Len(suffix) + 1, Len(text)) = suffix

\* the text without its last n characters
DropLast(text, n) == SubSeq(text, 1, Len(text) - n)

\* C11: for disk, mem and proc a text ending in % is replaced by the number
\* read from the text without its % suffix; when what is left is not a number
\* the value stays as it is and normalize returns normally.  (The suffix is the
\* whole run of trailing % characters: "49%%" is read as 49 as well.)
C11_PercentSuffixParsed ==
    npc >= 1 =>
        \A k \in PercentKeys \cap DOMAIN raw :
            (raw[k].t = "str" /\ EndsWith(raw[k].s, <<"%">>)) =>
                /\ ~EndsWith(DropLast(raw[k].s, 1), <<"%">>) =>
                       IF FloatOk(DropLast(raw[k].s, 1))
                       THEN once[k] = FloatVal(DropLast(raw[k].s, 1))
                       ELSE once[k] = raw[k]
                /\ IF FloatOk(RStrip(raw[k].s, {"%"}))
                   THEN once[k] = FloatVal(RStrip(raw[k].s, {"%"}))
                   ELSE once[k] = raw[k]

\* "4.9%" became 4.9, or a text with a % suffix and no number stayed
C11_Witness ==
    /\ npc >= 1
    /\ \/ /\ "mem" \in DOMAIN raw
          /\ raw["mem"] = Str(<<"4", ".", "9", "%">>)
          /\ once["mem"] = Num(49, 1)
       \/ /\ "proc" \in DOMAIN raw
          /\ raw["proc"] = Str(<<"4", "-", "%">>)
          /\ once["proc"] = raw["proc"]

\* C12: a textual temp ending in the degree-Celsius marker is replaced by the
\* number read from the text without that one suffix; when what is left is not
\* a number the value stays as it is.
C12_TempOneSuffixStripped ==
    (/\ npc >= 1
     /\ "temp" \in DOMAIN raw
     /\ raw["temp"].t = "str"
     /\ EndsWith(raw["temp"].s, <<"deg", "C">>)) =>
        IF FloatOk(DropLast(raw["temp"].s, 2))
        THEN once["temp"] = FloatVal(DropLast(raw["temp"].s, 2))
        ELSE once["temp"] = raw["temp"]

\* C13: normalize returns a mapping with the field names of its input and
\* changes no field other than disk, mem, proc, temp and CurrentHeight.
C13_OtherFieldsUntouched ==
    npc >= 1 =>
        /\ DOMAIN once = DOMAIN raw
        /\ \A k \in DOMAIN raw \ (PercentKeys \cup {"temp", "CurrentHeight"}) :
               once[k] = raw[k]
        /\ npc = 2 =>
               /\ DOMAIN twice = DOMAIN raw
               /\ \A k \in DOMAIN raw \ (PercentKeys \cup {"temp", "CurrentHeight"}) :
                      twice[k] = raw[k]

\* Status and Path held the text "49%" next to disk and kept it
C13_Witness ==
    /\ npc >= 1
    /\ {"Status", "Path", "disk"} \subseteq DOMAIN raw
    /\ raw["Path"] = Str(Text49Percent)
    /\ once["Path"] = Str(Text49Percent)
    /\ once["Status"] = Str(Text49Percent)
    /\ once["disk"] = Num(49, 0)

-----------------------------------------------------------------------------
(* Properties of the frame extractor (checked under SpecExtract) *)

\* position of the first start marker of the stream, 0 when it has none
FirstStart == Find(Stream, "FF", "D8")

\* position of the first end marker after the first start marker, 0 when
\* there is none
FirstEnd ==
    IF FirstStart = 0 THEN 0
    ELSE LET e == Find(SubSeq(Stream, FirstStart, Len(Stream)), "FF", "D9")
         IN  IF e = 0 THEN 0 ELSE FirstStart + e - 1

\* C14: every result that is not null begins with FF D8, ends with FF D9 and
\* holds none of the bytes that came before the start marker: it is the part
\* of the stream that begins at the first start marker.
C14_ResultIsFrame ==
    (epc = "done" /\ jpeg_data.some) =>
        LET r == jpeg_data.bytes
        IN  /\ Len(r) >= 4
            /\ SubSeq(r, 1, 2) = <<"FF", "D8">>
            /\ SubSeq(r, Len(r) - 1, Len(r)) = <<"FF", "D9">>
            /\ FirstStart # 0
            /\ r = SubSeq(Stream, FirstStart, FirstStart + Len(r) - 1)

\* the stream is [noise][FF D8][jpeg-bytes][FF D9][trailing noise] with no
\* marker in the leading noise, and it is read without a transport error
FramedStream ==
    /\ tail # "error"
    /\ FirstEnd # 0
    /\ Find(SubSeq(Stream, 1, FirstStart - 1), "FF", "D9") = 0

\* the bytes of the stream up to and including the first end marker
BytesThroughFrame == ByteLen(SubSeq(Stream, 1, FirstEnd + 1))

TheFrame == Frame(SubSeq(Stream, FirstStart, FirstEnd + 1))

\* a chunk boundary falls between the two bytes of a marker
MarkerSplit ==
    \E i \in 1..(Len(body_chunks) - 1) :
        /\ body_chunks[i][Len(body_chunks[i])] = "FF"
        /\ body_chunks[i + 1][1] \in {"D8", "D9"}

\* C15 as stated: on a framed stream the result is exactly the bytes from the
\* first start marker through the first end marker after it, whatever the
\* chunk boundaries.
C15_ExactFrame ==
    (epc = "done" /\ FramedStream) => jpeg_data = TheFrame

\* C15: on a framed stream whose bytes through the first end marker number at
\* most 2 MB the result is exactly the bytes from the first start marker
\* through the first end marker after it, whatever the chunk boundaries; on a
\* longer one it is that frame or null.
C15_ExactFrameWithinCeiling ==
    (epc = "done" /\ FramedStream) =>
        /\ BytesThroughFrame <= BufferCeiling => jpeg_data = TheFrame
        /\ jpeg_data \in {TheFrame, NoFrame}

\* a frame was returned whose marker arrived in two chunks, after noise
C15_Witness ==
    /\ epc = "done"
    /\ FramedStream
    /\ MarkerSplit
    /\ FirstStart > 1
    /\ BytesThroughFrame <= BufferCeiling
    /\ jpeg_data = TheFrame

\* C16: when the stream holds no start marker followed by an end marker the
\* result is null, and no more than the ceiling plus one chunk is ever read.
C16_NullWithoutFrame ==
    /\ (epc = "done" /\ FirstEnd = 0) => jpeg_data = NoFrame
    /\ nread <= BufferCeiling + ChunkSize

\* C17: the stream with any other Content-Length line in front of it, or with
\* none, chunked alike and read to its end, gives the same result.
C17_LengthLineIgnored ==
    (epc = "done" /\ tail = "eof") =>
        \A h \in HeaderLines :
            ExtractResult(WithHeader(h, body_chunks), tail) = jpeg_data

-----------------------------------------------------------------------------
(* Properties of the camera (checked under SpecCamera) *)

Entered == {c \in CallIds : calls[c].pc # "new"}

Returned == {c \in CallIds : calls[c].pc = "done"}

\* the capture of the call failed
CaptureFailed(c) ==
    calls[c].outcome \in {"timeout", "client_error", "empty", "image_error"}

\* C18: a call that finds an image cached and less than one frame interval
\* gone since the time stored with it returns the cached bytes, issues no
\* request and leaves the image and the time as they were; any other call
\* issues a stream request.
C18_FreshCacheAnswers ==
    \A c \in Entered :
        IF /\ calls[c].seen_image.some
           /\ calls[c].current_time - calls[c].seen_time < FrameInterval
        THEN /\ calls[c].pc = "done"
             /\ ~calls[c].requested
             /\ calls[c].result = calls[c].seen_image
             /\ calls[c].left_image = calls[c].seen_image
             /\ calls[c].left_time = calls[c].seen_time
        ELSE calls[c].requested

\* one call fetched a frame and cached it, another was answered from the cache
\* and the stream was requested once
C18_Witness ==
    \E c, d \in Returned :
        /\ calls[c].outcome = "cached"
        /\ calls[c].result.some
        /\ requests = 1
        /\ calls[d].requested

\* C19: two calls that start less than one frame interval apart cause one
\* stream request between them and return the same bytes, also while the
\* first is still suspended on its fetch; a call that starts a frame interval
\* or more after every earlier one causes a request.
C19_OneRequestPerInterval ==
    \A c, d \in Entered :
        c < d =>
            /\ calls[d].current_time - calls[c].current_time < FrameInterval =>
                   /\ ~(calls[c].requested /\ calls[d].requested)
                   /\ {c, d} \subseteq Returned => calls[c].result = calls[d].result
            /\ (\A e \in Entered :
                    e < d => calls[d].current_time - calls[e].current_time >= FrameInterval)
                   => calls[d].requested

\* C20: a call whose capture fails by a timeout, a transport error, a status
\* the client rejects, an empty extraction or an image error returns what is
\* cached at that moment: the image if there is one, null otherwise.
C20_FailureReturnsCache ==
    \A c \in Returned :
        CaptureFailed(c) =>
            /\ calls[c].result = calls[c].found_image
            /\ calls[c].left_image = calls[c].found_image

\* a capture failed with an image cached and one failed with none
C20_Witness ==
    \E c, d \in Returned :
        /\ calls[c].outcome = "ok"
        /\ CaptureFailed(d)
        /\ calls[d].result = calls[c].result
        /\ calls[d].result.some

\* C27: a failed capture changes neither the cached image nor the time stored
\* with it; the two are written only together, by a successful capture; so
\* the call that follows a failed one, nothing else being in flight, finds the
\* cache as the failed call found it and, if nothing is cached or the interval
\* has elapsed, issues a new stream request.
C27_FailureLeavesCache ==
    /\ \A c \in Returned :
            CaptureFailed(c) =>
                /\ calls[c].left_image = calls[c].found_image
                /\ calls[c].left_time = calls[c].found_time
    /\ last_image.some <=> last_frame_time # 0
    /\ last_image.some =>
            \E c \in Returned :
                /\ calls[c].outcome = "ok"
                /\ last_image = calls[c].result
                /\ last_frame_time = calls[c].current_time
    /\ \A c, d \in Entered :
            (d = c + 1 /\ CaptureFailed(c) /\ calls[c].alone /\ calls[d].alone) =>
                /\ calls[d].seen_image = calls[c].seen_image
                /\ calls[d].seen_time = calls[c].seen_time
                /\ (~calls[d].seen_image.some
                        \/ calls[d].current_time - calls[d].seen_time >= FrameInterval)
                       => calls[d].requested

\* a capture that started a frame interval after the cached one failed, and
\* the image and its time are still those it found
C27_Witness ==
    \E c \in Returned :
        /\ CaptureFailed(c)
        /\ calls[c].found_image.some
        /\ calls[c].current_time - calls[c].found_time >= FrameInterval
        /\ last_image = calls[c].found_image
        /\ last_frame_time = calls[c].found_time

\* the calls whose capture produced an image
Succeeded == {c \in Returned : calls[c].outcome = "ok"}

\* C28: under any interleaving of overlapping calls the cached time never
\* decreases and the cached image is the one of the capture that started
\* latest among those that have succeeded so far.
C28_LatestStartWins ==
    Succeeded # {} =>
        \E c \in Succeeded :
            /\ \A d \in Succeeded : calls[d].current_time <= calls[c].current_time
            /\ last_frame_time = calls[c].current_time
            /\ last_image = calls[c].result

-----------------------------------------------------------------------------
(* Properties of the services and the config entries (checked under
   SpecServices) *)

\* a service was called with a target that resolves to a registered device
\* and, for start_print, with a plate id
CallResolved ==
    /\ last_call.outcome # "none"
    /\ last_call.coordinator # 0
    /\ last_call.service = SERVICE_START_PRINT => last_call.plate_id # ""

\* the device answers the command with a 2xx status
CommandAccepted ==
    /\ last_call.response.kind = "response"
    /\ last_call.response.status \in 200..299

\* the control endpoint of each service
ControlEndpoint ==
    [s \in AllServices |->
        CASE s = "pause_print" -> <<"/printer/pause">>
          [] s = "resume_print" -> <<"/printer/unpause">>
          [] s = "cancel_print" -> <<"/printer/stop">>
          [] s = "set_auto_shutdown" ->
                IF last_call.enabled THEN <<"/printer/auto-shutdown/enable">>
                ELSE <<"/printer/auto-shutdown/disable">>
          [] s = "start_print" -> <<"/printer/start/", last_call.plate_id>>
          [] s = "shutdown" -> <<"/printer/off">>
          [] s = "reboot" -> <<"/printer/restart">>]

\* C21: after a command the device accepts (pause, unpause, stop, start,
\* auto-shutdown enable or disable, off, restart) a refresh of that device's
\* coordinator has been requested.
C21_RefreshAfterCommand ==
    (CallResolved /\ CommandAccepted) =>
        last_call.coordinator \in last_call.refreshed

\* C22: a service call whose target resolves to a registered device issues
\* exactly one GET, to the control endpoint of the service on that device's
\* host and port.
C22_OneGetToEndpoint ==
    CallResolved =>
        last_call.gets =
            << [host |-> HostOf(last_call.coordinator),
                port |-> PortOf(last_call.coordinator),
                path |-> ControlEndpoint[last_call.service]] >>

\* C23: when the control endpoint does not answer, or answers with a status
\* that is not 2xx, the caller gets a HomeAssistantError and no refresh is
\* requested.
C23_FailureIsHomeAssistantError ==
    (CallResolved /\ ~CommandAccepted) =>
        /\ last_call.outcome = "HomeAssistantError"
        /\ last_call.refreshed = {}

Quiescent == \A e \in Entries : entry_state[e] # "forwarding"

\* C29: once the setups and unloads that were started are over, the seven
\* services are registered exactly when the registry holds a coordinator, all
\* seven or none; a coordinator is in the registry only for an entry whose
\* first refresh succeeded and that was not unloaded since.
C29_ServicesFollowRegistry ==
    /\ services \in {{}, AllServices}
    /\ Quiescent => (services = AllServices <=> registry # {})
    /\ \A e \in registry :
           first_ok[e] /\ entry_state[e] \notin {"not_loaded", "refreshing"}
    /\ \A e \in Entries : entry_state[e] \in {"loaded", "unloading"} => e \in registry

\* two devices were loaded, one was unloaded: the services are still there
C29_Witness ==
    \E e, f \in Entries :
        /\ entry_state[e] = "not_loaded"
        /\ first_ok[e]
        /\ entry_state[f] = "loaded"
        /\ registry = {f}
        /\ services = AllServices

====
